---- MODULE Spec2Model ----
(***************************************************************************)
(* A model of src-tauri/src/lib.rs of JDfund: the settings commands        *)
(* (get_settings, save_settings, toggle_platform, set_bg_color) over the   *)
(* AppSettings mutex and the key-value store, the WebSocket supervisor    *)
(* loop spawned by start_websocket, and fetch_with_no_ssl.                 *)
(***************************************************************************)
EXTENDS Integers, Sequences, FiniteSets, TLC

\* ------------------------------------------------------------------ bounds

\* Commands begun over a run (settings side).
MaxCalls == 2

\* Connection attempts over a run, all supervisor loops together.
MaxAttempts == 4

\* Frames received over a run, all connections together.
MaxFrames == 2

\* Invocations of fetch_with_no_ssl over a run.
MaxFetches == 2

\* ------------------------------------------------------------- the values

\* The two call sites of the commands: the webview's invoke handler
\* (lib.rs:371-379) and the tray menu handler (lib.rs:427-459).
Callers == {"ui", "tray"}

BoolFields == {"show_xau", "show_ms", "show_gh", "show_zs"}
FieldNames == BoolFields \cup {"bg_color"}

\* The colours of the tray menu (lib.rs:447, 451, 455); the first is the default.
Colors == {"#2c3e50", "#000000"}

\* fn default_settings (lib.rs:35-43)
default_settings ==
    [show_xau |-> TRUE, show_ms |-> TRUE, show_gh |-> TRUE, show_zs |-> TRUE,
     bg_color |-> "#2c3e50"]

\* struct Settings (lib.rs:21-28), over the colours the model enumerates.
Settings ==
    [show_xau : BOOLEAN, show_ms : BOOLEAN, show_gh : BOOLEAN, show_zs : BOOLEAN,
     bg_color : Colors]

\* A JSON scalar as serde_json holds it: a tagged value.
JBool(b) == [t |-> "bool", b |-> b, s |-> ""]
JStr(s) == [t |-> "string", b |-> FALSE, s |-> s]
JMissing == [t |-> "missing", b |-> FALSE, s |-> ""]

\* What store.get(SETTINGS_KEY) can yield: no value, or a JSON object whose
\* members are tagged scalars (a member may be absent).
NoValue == [present |-> FALSE, obj |-> [f \in FieldNames |-> JMissing]]

\* to_value with bg_color left out of the object.
to_value_lossy(settings) ==
    [present |-> TRUE,
     obj |-> [f \in FieldNames |->
                IF f = "bg_color" THEN JMissing ELSE JBool(settings[f])]]

\* serde_json::to_value(&settings) (lib.rs:87): the derived Serialize writes one
\* member per field, booleans as JSON booleans and bg_color as a JSON string.
to_value(settings) ==
    [present |-> TRUE,
     obj |-> [f \in FieldNames |->
                IF f = "bg_color" THEN JStr(settings.bg_color) ELSE JBool(settings[f])]]

\* A decoder that takes an absent bg_color for the empty string.
decodes_lenient(value) ==
    /\ value.present
    /\ \A f \in BoolFields : value.obj[f].t = "bool"

\* The derived Deserialize accepts a value iff every field is there with its type.
decodes(value) ==
    /\ value.present
    /\ \A f \in BoolFields : value.obj[f].t = "bool"
    /\ value.obj["bg_color"].t = "string"

\* serde_json::from_value(value) (lib.rs:68, 385) on a value that decodes.
from_value(value) ==
    [show_xau |-> value.obj["show_xau"].b, show_ms |-> value.obj["show_ms"].b,
     show_gh |-> value.obj["show_gh"].b, show_zs |-> value.obj["show_zs"].b,
     bg_color |-> value.obj["bg_color"].s]

\* A record the derived Deserialize rejects: bg_color absent (a record written
\* before the field existed).
CorruptMissing ==
    [present |-> TRUE,
     obj |-> [f \in FieldNames |-> IF f = "bg_color" THEN JMissing ELSE JBool(TRUE)]]

\* A settings value other than the default, as a previous run may have saved it.
OtherSettings ==
    [show_xau |-> FALSE, show_ms |-> TRUE, show_gh |-> TRUE, show_zs |-> FALSE,
     bg_color |-> "#000000"]

\* What the store file may hold when the process starts.
InitialRecords ==
    {NoValue, CorruptMissing, to_value(OtherSettings)}

\* The identifiers toggle_platform is called with: two of the four of the
\* tray menu and of the match (lib.rs:120-123), and one it does not know.
PlatformInputs == {"xau", "ms", "unknown"}

\* The values save_settings is called with from the webview.
SaveInputs == {default_settings, OtherSettings}

\* Results of the commands: Ok(()), Ok(Settings), Err(String); get_settings
\* returns a bare Settings, held as "settings".
OkUnit == [kind |-> "ok", val |-> default_settings, err |-> ""]
OkSettings(s) == [kind |-> "settings", val |-> s, err |-> ""]
Err(e) == [kind |-> "err", val |-> default_settings, err |-> e]
NoResult == [kind |-> "none", val |-> default_settings, err |-> ""]

\* The supervisor loops that invocations of start_websocket can spawn: the
\* command is registered with the invoke handler (lib.rs:378) and each
\* invocation spawns one (lib.rs:206).
Loops == {"first", "second"}

\* tokio::time::Duration::from_secs(5) (lib.rs:231, 261)
ReconnectSecs == 5

\* The byte count log_line's message of a received text is cut to (lib.rs:240).
LogLimit == 100

\* A text is a sequence of code points; String holds it as UTF-8.
Utf8Len(cp) == IF cp < 128 THEN 1 ELSE IF cp < 2048 THEN 2 ELSE IF cp < 65536 THEN 3 ELSE 4

RECURSIVE ByteLenOf(_, _, _)
\* The bytes code points lo..hi of the text take.
ByteLenOf(text, lo, hi) ==
    IF lo > hi THEN 0
    ELSE IF lo = hi THEN Utf8Len(text[lo])
    ELSE LET mid == (lo + hi) \div 2
         IN  ByteLenOf(text, lo, mid) + ByteLenOf(text, mid + 1, hi)

\* text.len(): the length in bytes.
ByteLen(text) == ByteLenOf(text, 1, Len(text))

RECURSIVE BoundaryIn(_, _, _, _)
\* Whether n is the byte offset at which one of the first lo..hi code points
\* ends (offset 0 for none), given that lo's offset is at most n.
BoundaryIn(text, n, lo, hi) ==
    IF hi - lo <= 1
    THEN ByteLenOf(text, 1, lo) = n \/ ByteLenOf(text, 1, hi) = n
    ELSE LET mid == (lo + hi) \div 2
         IN  IF ByteLenOf(text, 1, mid) <= n
             THEN BoundaryIn(text, n, mid, hi)
             ELSE BoundaryIn(text, n, lo, mid)

\* str::is_char_boundary(n): byte offset n is where a code point starts or
\* the text ends.
IsCharBoundary(text, n) == BoundaryIn(text, n, 0, Len(text))

Min(a, b) == IF a < b THEN a ELSE b

\* &text[..text.len().min(100)] (lib.rs:240): slicing a str panics when the
\* end is not a char boundary.
LogSlicePanics(text) == ~IsCharBoundary(text, Min(ByteLen(text), LogLimit))

\* Texts the feed may send: a short one, an ASCII one longer than the cut, and
\* one whose three-byte code point (U+91D1) lies across byte 100.
ShortText == <<123, 125>>
LongAscii == [i \in 1..(LogLimit + 2) |-> 97]
WideAtCut == [i \in 1..(LogLimit + 2) |-> IF i = LogLimit THEN 37329 ELSE 97]
TextInputs == {ShortText, LongAscii, WideAtCut}

\* The texts of TextInputs on which the log line's slice panics.
PanickingTexts == {text \in TextInputs : LogSlicePanics(text)}

\* The invocations of fetch_with_no_ssl that can be in flight together: the
\* command is async (lib.rs:158) and registered with the invoke handler
\* (lib.rs:377).
Fetchers == {"one", "two"}

\* The byte count log_line's message of a response body is cut to (lib.rs:195).
FetchLogLimit == 200

\* &text[..text.len().min(200)] (lib.rs:195).
FetchLogSlicePanics(text) == ~IsCharBoundary(text, Min(ByteLen(text), FetchLogLimit))

\* char::to_uppercase on the code points the inputs use: the ASCII letters,
\* and U+017F (long s), whose uppercase is "S".
UpperOf(cp) ==
    IF cp \in 97..122 THEN cp - 32 ELSE IF cp = 383 THEN 83 ELSE cp

\* str::to_uppercase (lib.rs:170), code point by code point.
to_uppercase(text) == [i \in 1..Len(text) |-> UpperOf(text[i])]

\* "GET" and "POST", the patterns of the match (lib.rs:171-172).
GET == <<71, 69, 84>>
POST == <<80, 79, 83, 84>>

\* Option<String>: None, Some(text).
None == [some |-> FALSE, text |-> <<>>]
Some(text) == [some |-> TRUE, text |-> text]

\* The request the match builds (lib.rs:170-180); verb "" is the early return.
NoRequest == [verb |-> "", json |-> FALSE, body |-> None]

\* A match whose last arm falls back to GET.
MethodMatch_default(method, body) ==
    IF to_uppercase(method) = POST
    THEN [verb |-> "POST", json |-> body.some, body |-> body]
    ELSE [verb |-> "GET", json |-> FALSE, body |-> None]

\* lib.rs:170-180: GET takes no body; POST takes the body, with the JSON
\* content type, when there is one; anything else returns Err.
MethodMatch(method, body) ==
    IF to_uppercase(method) = GET
    THEN [verb |-> "GET", json |-> FALSE, body |-> None]
    ELSE IF to_uppercase(method) = POST
    THEN [verb |-> "POST", json |-> body.some, body |-> body]
    ELSE NoRequest

\* Methods a caller may pass: "GET", "get", "POST", "Post", "po\u017Ft", "PUT",
\* "put" and "".
MethodInputs ==
    {GET, <<103, 101, 116>>, POST, <<80, 111, 115, 116>>, <<112, 111, 383, 116>>,
     <<80, 85, 84>>, <<112, 117, 116>>, <<>>}

BodyInputs == {None, Some(ShortText)}

\* Response bodies: a short one, an ASCII one longer than the cut, and one
\* whose three-byte code point lies across byte 200.
LongBody == [i \in 1..(FetchLogLimit + 2) |-> 97]
WideBody == [i \in 1..(FetchLogLimit + 2) |-> IF i = FetchLogLimit THEN 37329 ELSE 97]
ResponseInputs == {ShortText, LongBody, WideBody}

\* The bodies of ResponseInputs on which the log line's slice panics.
PanickingResponses == {text \in ResponseInputs : FetchLogSlicePanics(text)}

\* Result<String, String> of fetch_with_no_ssl.
OkText(text) == [kind |-> "text", text |-> text, err |-> ""]
ErrText(e) == [kind |-> "err", text |-> <<>>, err |-> e]
NoText == [kind |-> "none", text |-> <<>>, err |-> ""]

\* -------------------------------------------------------------- the state

VARIABLES
    mem,        \* AppSettings(Mutex<Settings>): the value behind the mutex
    storeOk,    \* whether app.store(STORE_PATH) opens the store: the path is resolved
                \* from the process's environment, the same for every call of a run
    cache,      \* the store's in-memory value under SETTINGS_KEY
    disk,       \* the value under SETTINGS_KEY in the saved store file
    emitted,    \* the "settings-updated" payloads emitted, in order
    pc,         \* per caller: the statement its running command is at
    op,         \* per caller: the running command
    param,      \* per caller: the platform or color argument
    local,      \* per caller: `current` / the `settings` argument
    ret,        \* per caller: what the command returned
    calls,      \* commands begun
    before,     \* per caller: mem and get_settings' value when its command began
    clean,      \* per caller: no other caller wrote since its command began
    spc,        \* per loop: where the spawned task is ("none": not spawned)
    startRet,   \* what the invocations of start_websocket returned, in order
    attempts,   \* connection attempts made, all loops together
    hsFails,    \* per loop: handshakes that failed
    hsOk,       \* per loop: handshakes that succeeded (its connections so far)
    sends,      \* per loop: subscription messages sent on the current connection
    naps,       \* per loop: the delays slept, in seconds, in order
    rx,         \* per loop: the text payloads received on the current connection
    frames,     \* frames received, all connections together
    feed,       \* the "xau-price-update" events emitted, in order
    fpc,        \* per fetcher: the statement its fetch_with_no_ssl is at
    fmethod,    \* per fetcher: the `method` argument
    fbody,      \* per fetcher: the `body` argument
    request,    \* per fetcher: the request the match built
    fret,       \* per fetcher: what the command returned
    fcall,      \* per fetcher: the number of its invocation (0: none yet)
    fetches,    \* invocations of fetch_with_no_ssl begun
    wire        \* the requests handed to send(), with their invocation, in order

svars == <<mem, storeOk, cache, disk, emitted, pc, op, param, local, ret, calls,
           before, clean>>

fvars == <<spc, startRet, attempts, hsFails, hsOk, sends, naps, rx, frames, feed>>

hvars == <<fpc, fmethod, fbody, request, fret, fcall, fetches, wire>>

vars == <<svars, fvars, hvars>>


\* fn get_settings (lib.rs:59-77): the value it returns in the current state.
\* It reads the store, not the AppSettings state (its _state is unused).
get_settings_value ==
    IF ~storeOk THEN default_settings
    ELSE IF ~cache.present THEN default_settings
    ELSE IF decodes(cache) THEN from_value(cache)
    ELSE default_settings

Snapshot == [mem |-> mem, got |-> get_settings_value]

\* fn run, setup (lib.rs:383-401): the settings are loaded from the store, or
\* are the default when the store does not open, has no value, or the value
\* does not decode; AppSettings is created with the default (lib.rs:370).
LoadSettings(ok, value) ==
    IF ok /\ decodes(value) THEN from_value(value) ELSE default_settings

Init ==
    /\ storeOk \in BOOLEAN
    /\ disk \in (IF storeOk THEN InitialRecords ELSE {NoValue})
    /\ cache = disk
    /\ mem = LoadSettings(storeOk, cache)
    /\ emitted = <<>>
    /\ pc = [c \in Callers |-> "idle"]
    /\ op = [c \in Callers |-> "none"]
    /\ param = [c \in Callers |-> ""]
    /\ local = [c \in Callers |-> default_settings]
    /\ ret = [c \in Callers |-> NoResult]
    /\ calls = 0
    /\ before = [c \in Callers |-> Snapshot]
    /\ clean = [c \in Callers |-> TRUE]
    /\ spc = [l \in Loops |-> "none"]
    /\ startRet = <<>>
    /\ attempts = 0
    /\ hsFails = [l \in Loops |-> 0]
    /\ hsOk = [l \in Loops |-> 0]
    /\ sends = [l \in Loops |-> 0]
    /\ naps = [l \in Loops |-> <<>>]
    /\ rx = [l \in Loops |-> <<>>]
    /\ frames = 0
    /\ feed = <<>>
    /\ fpc = [f \in Fetchers |-> "idle"]
    /\ fmethod = [f \in Fetchers |-> <<>>]
    /\ fbody = [f \in Fetchers |-> None]
    /\ request = [f \in Fetchers |-> NoRequest]
    /\ fret = [f \in Fetchers |-> NoText]
    /\ fcall = [f \in Fetchers |-> 0]
    /\ fetches = 0
    /\ wire = <<>>

\* A command begins: caller c runs none (it never ran one, or has the result
\* of its last) and the budget of calls is not used up.
Begins(c, name, arg) ==
    /\ pc[c] \in {"idle", "done"}
    /\ calls < MaxCalls
    /\ calls' = calls + 1
    /\ op' = [op EXCEPT ![c] = name]
    /\ param' = [param EXCEPT ![c] = arg]
    /\ before' = [before EXCEPT ![c] = Snapshot]

\* Caller c writes shared state: every other caller's command is overlapped.
Writes(c) == clean' = [d \in Callers |-> IF d = c THEN clean[d] ELSE FALSE]

\* fn get_settings as a command of caller c.
get_settings(c) ==
    /\ Begins(c, "get_settings", "")
    /\ pc' = [pc EXCEPT ![c] = "done"]
    /\ ret' = [ret EXCEPT ![c] = OkSettings(get_settings_value)]
    /\ clean' = [clean EXCEPT ![c] = TRUE]
    /\ UNCHANGED <<mem, storeOk, cache, disk, emitted, local>>
    /\ UNCHANGED <<fvars, hvars>>

\* fn save_settings called from the webview (lib.rs:81-85): the argument is bound.
save_settings(c, s) ==
    /\ Begins(c, "save_settings", "")
    /\ pc' = [pc EXCEPT ![c] = "open"]
    /\ local' = [local EXCEPT ![c] = s]
    /\ clean' = [clean EXCEPT ![c] = TRUE]
    /\ ret' = [ret EXCEPT ![c] = NoResult]
    /\ UNCHANGED <<mem, storeOk, cache, disk, emitted>>
    /\ UNCHANGED <<fvars, hvars>>

\* lib.rs:86-87: app.store(STORE_PATH)? and to_value(&settings)?.
save_settings_open(c) ==
    /\ pc[c] = "open"
    /\ IF storeOk
       THEN /\ pc' = [pc EXCEPT ![c] = "set"]
            /\ ret' = ret
       ELSE /\ pc' = [pc EXCEPT ![c] = "done"]
            /\ ret' = [ret EXCEPT ![c] = Err("store open failed")]
    /\ UNCHANGED <<mem, storeOk, cache, disk, emitted, op, param, local, calls,
                   before, clean>>
    /\ UNCHANGED <<fvars, hvars>>

\* store.set with the settings in memory assigned at once, before the save.
save_settings_set_swaps(c) ==
    /\ pc[c] = "set"
    /\ cache' = to_value(local[c])
    /\ mem' = local[c]
    /\ pc' = [pc EXCEPT ![c] = "save"]
    /\ Writes(c)
    /\ UNCHANGED <<storeOk, disk, emitted, op, param, local, ret, calls, before>>
    /\ UNCHANGED <<fvars, hvars>>

\* lib.rs:88: store.set(SETTINGS_KEY, value).
save_settings_set(c) ==
    /\ pc[c] = "set"
    /\ cache' = to_value(local[c])
    /\ pc' = [pc EXCEPT ![c] = "save"]
    /\ Writes(c)
    /\ UNCHANGED <<mem, storeOk, disk, emitted, op, param, local, ret, calls, before>>
    /\ UNCHANGED <<fvars, hvars>>

\* store.save() with the settings in memory assigned before the result of the
\* save is looked at.
save_settings_save_early(c, saved) ==
    /\ pc[c] = "save"
    /\ mem' = local[c]
    /\ IF saved
       THEN /\ disk' = cache
            /\ pc' = [pc EXCEPT ![c] = "lock"]
            /\ ret' = ret
       ELSE /\ disk' = disk
            /\ pc' = [pc EXCEPT ![c] = "done"]
            /\ ret' = [ret EXCEPT ![c] = Err("store save failed")]
    /\ Writes(c)
    /\ UNCHANGED <<storeOk, cache, emitted, op, param, local, calls, before>>
    /\ UNCHANGED <<fvars, hvars>>

\* lib.rs:89: store.save()?, which writes the store's in-memory value to the
\* file or fails and leaves the file as it was.
save_settings_save(c, saved) ==
    /\ pc[c] = "save"
    /\ IF saved
       THEN /\ disk' = cache
            /\ pc' = [pc EXCEPT ![c] = "lock"]
            /\ ret' = ret
       ELSE /\ disk' = disk
            /\ pc' = [pc EXCEPT ![c] = "done"]
            /\ ret' = [ret EXCEPT ![c] = Err("store save failed")]
    /\ Writes(c)
    /\ UNCHANGED <<mem, storeOk, cache, emitted, op, param, local, calls, before>>
    /\ UNCHANGED <<fvars, hvars>>

\* lib.rs:91-97: lock the mutex and assign the value. No statement panics
\* while a guard is held, so the lock is never poisoned and lock() is Ok.
save_settings_lock(c) ==
    /\ pc[c] = "lock"
    /\ mem' = local[c]
    /\ pc' = [pc EXCEPT ![c] = "emit"]
    /\ Writes(c)
    /\ UNCHANGED <<storeOk, cache, disk, emitted, op, param, local, ret, calls, before>>
    /\ UNCHANGED <<fvars, hvars>>

\* lib.rs:100-101 and, for toggle_platform and set_bg_color, lib.rs:127-128
\* and 146-147: emit "settings-updated", return Ok(()) / Ok(current).
save_settings_emit(c) ==
    /\ pc[c] = "emit"
    /\ emitted' = Append(emitted, local[c])
    /\ pc' = [pc EXCEPT ![c] = "done"]
    /\ ret' = [ret EXCEPT ![c] =
                 IF op[c] = "save_settings" THEN OkUnit ELSE OkSettings(local[c])]
    /\ Writes(c)
    /\ UNCHANGED <<mem, storeOk, cache, disk, op, param, local, calls, before>>
    /\ UNCHANGED <<fvars, hvars>>

\* lib.rs:111-117: lock the mutex and clone the value into `current`.
toggle_platform(c, platform) ==
    /\ Begins(c, "toggle_platform", platform)
    /\ local' = [local EXCEPT ![c] = mem]
    /\ pc' = [pc EXCEPT ![c] = "match"]
    /\ clean' = [clean EXCEPT ![c] = TRUE]
    /\ ret' = [ret EXCEPT ![c] = NoResult]
    /\ UNCHANGED <<mem, storeOk, cache, disk, emitted>>
    /\ UNCHANGED <<fvars, hvars>>

\* The match with a default arm that names a field.
FieldOf_default(platform) ==
    CASE platform = "xau" -> "show_xau"
      [] platform = "ms" -> "show_ms"
      [] platform = "gh" -> "show_gh"
      [] OTHER -> "show_zs"

\* The field a platform identifier names (lib.rs:120-123), "" for none.
FieldOf(platform) ==
    CASE platform = "xau" -> "show_xau"
      [] platform = "ms" -> "show_ms"
      [] platform = "gh" -> "show_gh"
      [] platform = "zs" -> "show_zs"
      [] OTHER -> ""

\* A match whose arms clear the named flag instead of negating it.
Flip_false(current, platform) ==
    [current EXCEPT ![FieldOf(platform)] = FALSE]

\* lib.rs:119-125: the match on the platform, applied to `current`.
Flip(current, platform) ==
    [current EXCEPT ![FieldOf(platform)] = ~current[FieldOf(platform)]]

\* lib.rs:119-127: flip the named flag and call save_settings, or return Err.
toggle_platform_match(c) ==
    /\ pc[c] = "match"
    /\ IF FieldOf(param[c]) # ""
       THEN /\ local' = [local EXCEPT ![c] = Flip(local[c], param[c])]
            /\ pc' = [pc EXCEPT ![c] = "open"]
            /\ ret' = ret
       ELSE /\ local' = local
            /\ pc' = [pc EXCEPT ![c] = "done"]
            /\ ret' = [ret EXCEPT ![c] = Err("Unknown platform")]
    /\ UNCHANGED <<mem, storeOk, cache, disk, emitted, op, param, calls, before, clean>>
    /\ UNCHANGED <<fvars, hvars>>

\* lib.rs:138-144: lock the mutex and clone the value into `current`.
set_bg_color(c, color) ==
    /\ Begins(c, "set_bg_color", color)
    /\ local' = [local EXCEPT ![c] = mem]
    /\ pc' = [pc EXCEPT ![c] = "assign"]
    /\ clean' = [clean EXCEPT ![c] = TRUE]
    /\ ret' = [ret EXCEPT ![c] = NoResult]
    /\ UNCHANGED <<mem, storeOk, cache, disk, emitted>>
    /\ UNCHANGED <<fvars, hvars>>

\* An assignment that builds the value from the defaults.
set_bg_color_assign_fresh(c) ==
    /\ pc[c] = "assign"
    /\ local' = [local EXCEPT ![c] = [default_settings EXCEPT !.bg_color = param[c]]]
    /\ pc' = [pc EXCEPT ![c] = "open"]
    /\ UNCHANGED <<mem, storeOk, cache, disk, emitted, op, param, ret, calls, before, clean>>
    /\ UNCHANGED <<fvars, hvars>>

\* lib.rs:145-146: current.bg_color = color, then call save_settings.
set_bg_color_assign(c) ==
    /\ pc[c] = "assign"
    /\ local' = [local EXCEPT ![c].bg_color = param[c]]
    /\ pc' = [pc EXCEPT ![c] = "open"]
    /\ UNCHANGED <<mem, storeOk, cache, disk, emitted, op, param, ret, calls, before, clean>>
    /\ UNCHANGED <<fvars, hvars>>

NextSettings ==
    \E c \in Callers :
        \/ get_settings(c)
        \/ \E s \in SaveInputs : save_settings(c, s)
        \/ save_settings_open(c)
        \/ save_settings_set(c)
        \/ \E saved \in BOOLEAN : save_settings_save(c, saved)
        \/ save_settings_lock(c)
        \/ save_settings_emit(c)
        \/ \E platform \in PlatformInputs : toggle_platform(c, platform)
        \/ toggle_platform_match(c)
        \/ \E color \in Colors : set_bg_color(c, color)
        \/ set_bg_color_assign(c)

\* -------------------------------------------------- the WebSocket supervisor

\* fn start_websocket (lib.rs:202-206, 265): spawn the loop and return Ok(()).
\* Nothing records that a loop already runs.
start_websocket(l) ==
    /\ spc[l] = "none"
    /\ spc' = [spc EXCEPT ![l] = "connect"]
    /\ startRet' = Append(startRet, OkUnit)
    /\ UNCHANGED <<attempts, hsFails, hsOk, sends, naps, rx, frames, feed>>
    /\ UNCHANGED <<svars, hvars>>

\* lib.rs:208-224, 255-257: build the connector and connect. The connector is
\* built with no certificate or identity to load, so build() is Ok. A failed
\* handshake falls through to the delay of lib.rs:260-261.
connect(l, connected) ==
    /\ spc[l] = "connect"
    /\ attempts < MaxAttempts
    /\ attempts' = attempts + 1
    /\ IF connected
       THEN /\ spc' = [spc EXCEPT ![l] = "subscribe"]
            /\ hsOk' = [hsOk EXCEPT ![l] = @ + 1]
            /\ hsFails' = hsFails
            /\ sends' = [sends EXCEPT ![l] = 0]
            /\ rx' = [rx EXCEPT ![l] = <<>>]
       ELSE /\ spc' = [spc EXCEPT ![l] = "sleep"]
            /\ hsFails' = [hsFails EXCEPT ![l] = @ + 1]
            /\ UNCHANGED <<hsOk, sends, rx>>
    /\ UNCHANGED <<startRet, naps, frames, feed>>
    /\ UNCHANGED <<svars, hvars>>

\* A subscription whose send error is dropped: the loop receives either way.
subscribe_ignore(l, sent) ==
    /\ spc[l] = "subscribe"
    /\ spc' = [spc EXCEPT ![l] = "recv"]
    /\ sends' = [sends EXCEPT ![l] = IF sent THEN @ + 1 ELSE @]
    /\ UNCHANGED <<startRet, attempts, hsFails, hsOk, naps, rx, frames, feed>>
    /\ UNCHANGED <<svars, hvars>>

\* lib.rs:228-234: send the subscription message; on an error go to the delay
\* of lib.rs:231 and `continue`.
subscribe(l, sent) ==
    /\ spc[l] = "subscribe"
    /\ IF sent
       THEN /\ spc' = [spc EXCEPT ![l] = "recv"]
            /\ sends' = [sends EXCEPT ![l] = @ + 1]
       ELSE /\ spc' = [spc EXCEPT ![l] = "sleep_send"]
            /\ sends' = sends
    /\ UNCHANGED <<startRet, attempts, hsFails, hsOk, naps, rx, frames, feed>>
    /\ UNCHANGED <<svars, hvars>>

\* A send-error path without the `continue`: it sleeps and falls through to
\* the delay at the end of the loop body.
sleep_send_fallthrough(l) ==
    /\ spc[l] = "sleep_send"
    /\ naps' = [naps EXCEPT ![l] = Append(@, ReconnectSecs)]
    /\ spc' = [spc EXCEPT ![l] = "sleep"]
    /\ UNCHANGED <<startRet, attempts, hsFails, hsOk, sends, rx, frames, feed>>
    /\ UNCHANGED <<svars, hvars>>

\* lib.rs:231-232: sleep 5 s, then `continue` to the top of the loop.
sleep_send(l) ==
    /\ spc[l] = "sleep_send"
    /\ naps' = [naps EXCEPT ![l] = Append(@, ReconnectSecs)]
    /\ spc' = [spc EXCEPT ![l] = "connect"]
    /\ UNCHANGED <<startRet, attempts, hsFails, hsOk, sends, rx, frames, feed>>
    /\ UNCHANGED <<svars, hvars>>

\* The delay growing with the number of delays slept.
sleep_growing(l) ==
    /\ spc[l] = "sleep"
    /\ naps' = [naps EXCEPT ![l] = Append(@, ReconnectSecs * (Len(@) + 1))]
    /\ spc' = [spc EXCEPT ![l] = "connect"]
    /\ UNCHANGED <<startRet, attempts, hsFails, hsOk, sends, rx, frames, feed>>
    /\ UNCHANGED <<svars, hvars>>

\* lib.rs:260-262: sleep 5 s, then the next iteration of the loop.
sleep(l) ==
    /\ spc[l] = "sleep"
    /\ naps' = [naps EXCEPT ![l] = Append(@, ReconnectSecs)]
    /\ spc' = [spc EXCEPT ![l] = "connect"]
    /\ UNCHANGED <<startRet, attempts, hsFails, hsOk, sends, rx, frames, feed>>
    /\ UNCHANGED <<svars, hvars>>

\* The event one text frame makes: the payload as received (lib.rs:241).
PriceUpdate(l, text) == [loop |-> l, conn |-> hsOk[l], payload |-> text]

\* lib.rs:237-242: next() yields a text frame: log its first bytes, emit it.
\* The slice of lib.rs:240 panics on some texts, which ends the spawned task
\* before the emit.
recv_text(l, text) ==
    /\ spc[l] = "recv"
    /\ frames < MaxFrames
    /\ frames' = frames + 1
    /\ rx' = [rx EXCEPT ![l] = Append(@, text)]
    /\ IF text \in PanickingTexts
       THEN /\ spc' = [spc EXCEPT ![l] = "panicked"]
            /\ feed' = feed
       ELSE /\ spc' = spc
            /\ feed' = Append(feed, PriceUpdate(l, text))
    /\ UNCHANGED <<startRet, attempts, hsFails, hsOk, sends, naps>>
    /\ UNCHANGED <<svars, hvars>>

\* lib.rs:251: a binary, ping or pong frame: nothing, the loop waits again.
recv_other(l) ==
    /\ spc[l] = "recv"
    /\ frames < MaxFrames
    /\ frames' = frames + 1
    /\ UNCHANGED <<spc, startRet, attempts, hsFails, hsOk, sends, naps, rx, feed>>
    /\ UNCHANGED <<svars, hvars>>

\* lib.rs:237, 243-250, 253: a close frame, a read error or the end of the
\* stream leaves the receive loop for the delay of lib.rs:260-261.
recv_end(l, how) ==
    /\ spc[l] = "recv"
    /\ how \in {"close", "error", "end"}
    /\ spc' = [spc EXCEPT ![l] = "sleep"]
    /\ UNCHANGED <<startRet, attempts, hsFails, hsOk, sends, naps, rx, frames, feed>>
    /\ UNCHANGED <<svars, hvars>>

NextFeed ==
    \E l \in Loops :
        \/ start_websocket(l)
        \/ \E connected \in BOOLEAN : connect(l, connected)
        \/ \E sent \in BOOLEAN : subscribe(l, sent)
        \/ sleep_send(l)
        \/ sleep(l)
        \/ \E text \in TextInputs : recv_text(l, text)
        \/ recv_other(l)
        \/ \E how \in {"close", "error", "end"} : recv_end(l, how)

\* ------------------------------------------------------- fetch_with_no_ssl

\* lib.rs:158-180: the command begins, builds the client and matches on the
\* method; a client that does not build and an unsupported method return Err
\* here, before anything is awaited.
fetch_with_no_ssl(f, method, body, built) ==
    /\ fpc[f] \in {"idle", "done"}
    /\ fetches < MaxFetches
    /\ fetches' = fetches + 1
    /\ fcall' = [fcall EXCEPT ![f] = fetches + 1]
    /\ fmethod' = [fmethod EXCEPT ![f] = method]
    /\ fbody' = [fbody EXCEPT ![f] = body]
    /\ IF ~built
       THEN /\ request' = [request EXCEPT ![f] = NoRequest]
            /\ fret' = [fret EXCEPT ![f] = ErrText("client build error")]
            /\ fpc' = [fpc EXCEPT ![f] = "done"]
       ELSE IF MethodMatch(method, body) = NoRequest
       THEN /\ request' = [request EXCEPT ![f] = NoRequest]
            /\ fret' = [fret EXCEPT ![f] = ErrText("Unsupported method")]
            /\ fpc' = [fpc EXCEPT ![f] = "done"]
       ELSE /\ request' = [request EXCEPT ![f] = MethodMatch(method, body)]
            /\ fret' = [fret EXCEPT ![f] = NoText]
            /\ fpc' = [fpc EXCEPT ![f] = "send"]
    /\ wire' = wire
    /\ UNCHANGED <<svars, fvars>>

\* lib.rs:182-187: request.send().await; an error returns Err.
fetch_send(f, answered) ==
    /\ fpc[f] = "send"
    /\ wire' = Append(wire, [call |-> fcall[f], req |-> request[f]])
    /\ IF answered
       THEN /\ fpc' = [fpc EXCEPT ![f] = "text"]
            /\ fret' = fret
       ELSE /\ fpc' = [fpc EXCEPT ![f] = "done"]
            /\ fret' = [fret EXCEPT ![f] = ErrText("request error")]
    /\ UNCHANGED <<fmethod, fbody, request, fcall, fetches>>
    /\ UNCHANGED <<svars, fvars>>

\* lib.rs:190-197: response.text().await; an error returns Err; otherwise the
\* first 200 bytes are logged, which panics off a char boundary, and the body
\* is returned.
fetch_text(f, read, text) ==
    /\ fpc[f] = "text"
    /\ IF ~read
       THEN /\ fpc' = [fpc EXCEPT ![f] = "done"]
            /\ fret' = [fret EXCEPT ![f] = ErrText("read body error")]
       ELSE IF text \in PanickingResponses
       THEN /\ fpc' = [fpc EXCEPT ![f] = "panicked"]
            /\ fret' = fret
       ELSE /\ fpc' = [fpc EXCEPT ![f] = "done"]
            /\ fret' = [fret EXCEPT ![f] = OkText(text)]
    /\ UNCHANGED <<fmethod, fbody, request, fcall, fetches, wire>>
    /\ UNCHANGED <<svars, fvars>>

NextFetch ==
    \E f \in Fetchers :
        \/ \E method \in MethodInputs, body \in BodyInputs, built \in BOOLEAN :
              fetch_with_no_ssl(f, method, body, built)
        \/ \E answered \in BOOLEAN : fetch_send(f, answered)
        \/ \E read \in BOOLEAN, text \in ResponseInputs : fetch_text(f, read, text)

\* ------------------------------------------------------ the specifications

\* The settings commands alone.
SettingsSpec == Init /\ [][NextSettings]_vars

\* The supervisor loops alone, over one state of the settings.
FeedInit == Init /\ storeOk /\ disk = NoValue

FeedSpec == FeedInit /\ [][NextFeed]_vars

\* fetch_with_no_ssl alone: it touches neither the settings nor the feed.
FetchSpec == FeedInit /\ [][NextFetch]_vars


\* ------------------------------------------------------------- the claims

\* No command of any caller is between its first and its last statement.
Quiescent == \A c \in Callers : pc[c] \in {"idle", "done"}

Toggled(s, fields) ==
    [f \in FieldNames |-> IF f \in fields THEN ~s[f] ELSE s[f]]

\* C1: when toggle_platform("xau") and toggle_platform("ms") are the two
\* commands of a run, one per caller, and both returned Ok, the settings in
\* memory are the settings the first of them read with show_xau and show_ms
\* both flipped, in every interleaving of their steps.
C1_NoLostUpdate ==
    ( /\ calls = 2
      /\ \A c \in Callers :
            /\ pc[c] = "done"
            /\ op[c] = "toggle_platform"
            /\ ret[c].kind = "settings"
      /\ {param[c] : c \in Callers} = {"xau", "ms"} )
    => \E c \in Callers : mem = Toggled(before[c].mem, {"show_xau", "show_ms"})

\* C2: a save_settings that fails because the store does not open or
\* store.save() fails returns Err from the statements before the mutex is
\* locked, and no step of a command up to there changes the settings in
\* memory or emits "settings-updated".
C2_NoPartialApply ==
    [][\A c \in Callers :
          /\ ( /\ pc[c] # "done"
               /\ pc'[c] = "done"
               /\ ret'[c].err \in {"store open failed", "store save failed"} )
             => ( /\ pc[c] \in {"open", "save"}
                  /\ ret'[c].kind = "err"
                  /\ mem' = mem
                  /\ emitted' = emitted )
          /\ ( /\ pc'[c] # pc[c]
               /\ (pc'[c] \in {"open", "set", "save"} \/ pc[c] \in {"open", "set", "save"}) )
             => (mem' = mem /\ emitted' = emitted)
      ]_vars

\* C2 witness: a command has returned the error of a failed store.save().
C2_Witness ==
    \E c \in Callers :
        /\ pc[c] = "done"
        /\ ret[c] = Err("store save failed")
        /\ cache = to_value(local[c])
        /\ disk # cache

\* C3: after a toggle_platform or set_bg_color that returned Err, with no other
\* caller writing meanwhile, get_settings returns what it returned before the
\* command.
C3_FailedCallKeepsValue ==
    \A c \in Callers :
        ( /\ pc[c] = "done"
          /\ op[c] \in {"toggle_platform", "set_bg_color"}
          /\ ret[c].kind = "err"
          /\ clean[c] )
        => get_settings_value = before[c].got

\* C4: whenever no command is running, get_settings returns the value held in
\* the AppSettings mutex.
C4_GetReturnsMemory ==
    Quiescent => get_settings_value = mem

\* C5: after a save_settings(S) that returned Ok, with no other caller writing
\* meanwhile, get_settings returns S, field by field.
C5_RoundTrip ==
    \A c \in Callers :
        ( /\ pc[c] = "done"
          /\ op[c] = "save_settings"
          /\ ret[c] = OkUnit
          /\ clean[c] )
        => \A f \in FieldNames : get_settings_value[f] = local[c][f]

\* C5 witness: a save_settings(S) returned Ok and changed what get_settings
\* returns.
C5_Witness ==
    \E c \in Callers :
        /\ pc[c] = "done"
        /\ op[c] = "save_settings"
        /\ ret[c] = OkUnit
        /\ clean[c]
        /\ before[c].got # local[c]
        /\ get_settings_value = local[c]

\* C6: every step of a toggle_platform whose identifier is none of "xau", "ms",
\* "gh", "zs" leaves the settings in memory, the store's value, the saved
\* record and the emitted notifications as they were; the command never
\* reaches save_settings and returns Err.
C6_UnknownFieldRejected ==
    [][\A c \in Callers :
          ( /\ pc'[c] # pc[c]
            /\ op'[c] = "toggle_platform"
            /\ param'[c] \notin {"xau", "ms", "gh", "zs"} )
          => ( /\ mem' = mem
               /\ cache' = cache
               /\ disk' = disk
               /\ emitted' = emitted
               /\ pc'[c] \in {"match", "done"}
               /\ pc'[c] = "done" => ret'[c] = Err("Unknown platform") )
      ]_vars

\* C6 witness: toggle_platform("unknown") has returned its error.
C6_Witness ==
    \E c \in Callers :
        /\ pc[c] = "done"
        /\ op[c] = "toggle_platform"
        /\ param[c] = "unknown"
        /\ ret[c] = Err("Unknown platform")

\* C7: a loop whose first three handshakes failed and whose fourth succeeded
\* is in the receive loop after exactly three delays of 5 seconds and one
\* subscription message.
C7_ThreeBackoffs ==
    \A l \in Loops :
        (spc[l] = "recv" /\ hsFails[l] = 3 /\ hsOk[l] = 1)
        => (naps[l] = <<5, 5, 5>> /\ sends[l] = 1)

\* C7 witness: a loop receives after three failed handshakes and one that
\* succeeded.
C7_Witness ==
    \E l \in Loops : spc[l] = "recv" /\ hsFails[l] = 3 /\ hsOk[l] = 1

\* C8: a spawned loop is never in a state it cannot leave (it connects,
\* subscribes, receives or sleeps before the next attempt), and every
\* invocation of start_websocket returned Ok(()).
C8_NeverGivesUp ==
    /\ \A l \in Loops : spc[l] \in {"none", "connect", "subscribe", "recv", "sleep_send", "sleep"}
    /\ \A i \in 1..Len(startRet) : startRet[i] = OkUnit

\* C9: at most one supervisor loop runs, however often start_websocket is
\* invoked.
C9_SingleSupervisor ==
    Cardinality({l \in Loops : spc[l] \notin {"none", "panicked"}}) <= 1

\* The payloads of the events emitted for the current connection of loop l.
EventsOf(l) ==
    LET Mine(e) == e.loop = l /\ e.conn = hsOk[l]
        mine == SelectSeq(feed, Mine)
    IN  [i \in 1..Len(mine) |-> mine[i].payload]

\* C10: on each connection the "xau-price-update" events are the text frames
\* received, one event per frame, payload unchanged, in the order of receipt.
C10_FeedOrdering ==
    \A l \in Loops : EventsOf(l) = rx[l]

\* C11: in a save_settings the store is set and saved before the settings in
\* memory are assigned, they are assigned before "settings-updated" is
\* emitted, and a call that returns Ok emitted exactly one notification, which
\* carries the value it assigned; nothing else emits.
C11_SaveOrder ==
    [][/\ \A c \in Callers :
            pc'[c] # pc[c] =>
              /\ pc'[c] = "save" =>
                    /\ pc[c] = "set"
                    /\ cache' = to_value(local[c])
                    /\ mem' = mem /\ disk' = disk /\ emitted' = emitted
              /\ pc'[c] = "lock" =>
                    /\ pc[c] = "save"
                    /\ disk' = cache
                    /\ mem' = mem /\ cache' = cache /\ emitted' = emitted
              /\ pc'[c] = "emit" =>
                    /\ pc[c] = "lock"
                    /\ mem' = local[c]
                    /\ disk' = disk /\ cache' = cache /\ emitted' = emitted
              /\ ( /\ pc'[c] = "done"
                   /\ op'[c] # "get_settings"
                   /\ ret'[c].kind \in {"ok", "settings"} ) =>
                    /\ pc[c] = "emit"
                    /\ emitted' = Append(emitted, local[c])
                    /\ mem' = mem /\ disk' = disk /\ cache' = cache
       /\ emitted' # emitted =>
            \E c \in Callers : pc[c] = "emit" /\ pc'[c] = "done"
      ]_vars

\* C11 witness: a save_settings(S) alone has returned Ok: S is saved, in
\* memory, and the payload of the last notification.
C11_Witness ==
    \E c \in Callers :
        /\ pc[c] = "done"
        /\ op[c] = "save_settings"
        /\ ret[c] = OkUnit
        /\ clean[c]
        /\ before[c].mem # local[c]
        /\ disk = to_value(local[c])
        /\ mem = local[c]
        /\ Len(emitted) = 1
        /\ emitted[1] = local[c]

\* C12: when the store does not open, holds no value under the key, or holds
\* a value that does not decode, get_settings would return, and a
\* get_settings command that ran in that state has returned, exactly
\* show_xau = show_ms = show_gh = show_zs = true, bg_color = "#2c3e50", as a
\* value and not as an error.
C12_DefaultFallback ==
    LET documented ==
            [show_xau |-> TRUE, show_ms |-> TRUE, show_gh |-> TRUE, show_zs |-> TRUE,
             bg_color |-> "#2c3e50"]
    IN  (~storeOk \/ cache = NoValue \/ cache = CorruptMissing) =>
            /\ get_settings_value = documented
            /\ \A c \in Callers :
                  (pc[c] = "done" /\ op[c] = "get_settings" /\ clean[c]) =>
                      (ret[c].kind = "settings" /\ ret[c].val = documented)

\* C12 witness: get_settings has returned while the store holds a record
\* without bg_color.
C12_Witness ==
    \E c \in Callers :
        /\ pc[c] = "done"
        /\ op[c] = "get_settings"
        /\ clean[c]
        /\ storeOk
        /\ cache = CorruptMissing
        /\ ret[c].kind = "settings"

\* Two toggle_platform commands with the same valid identifier ran one after
\* the other and both succeeded: the second began on the value the first had
\* returned and no other caller wrote while it ran.
TwoToggles(first, second) ==
    /\ first # second
    /\ calls = 2
    /\ \A c \in {first, second} :
          /\ pc[c] = "done"
          /\ op[c] = "toggle_platform"
          /\ ret[c].kind = "settings"
    /\ param[first] = param[second]
    /\ param[first] \in {"xau", "ms", "gh", "zs"}
    /\ clean[second]
    /\ before[second].mem = ret[first].val

\* C13: after two consecutive successful toggle_platform calls with the same
\* valid identifier and no other mutator, the settings in memory (and the value
\* the second call returned) equal the settings before the first call in all
\* five fields, the named flag included.
C13_ToggleInvolution ==
    \A first, second \in Callers :
        TwoToggles(first, second) =>
            /\ \A f \in FieldNames : mem[f] = before[first].mem[f]
            /\ ret[second].val = before[first].mem
            /\ ret[first].val # before[first].mem

\* C13 witness: two such toggles of "xau" have returned.
C13_Witness ==
    \E first, second \in Callers :
        /\ TwoToggles(first, second)
        /\ param[first] = "xau"
        /\ mem = before[first].mem
        /\ ret[first].val.show_xau # mem.show_xau

\* Caller c returns successfully from toggle_platform or set_bg_color.
MutatorReturns(c) ==
    /\ pc[c] = "emit"
    /\ pc'[c] = "done"
    /\ op[c] \in {"toggle_platform", "set_bg_color"}

\* C14: whenever toggle_platform or set_bg_color returns Ok, the value it
\* returns equals the settings in memory at that moment, whatever other
\* mutators did meanwhile.
C14_ReturnsValueInForce ==
    [][\A c \in Callers : MutatorReturns(c) => ret'[c].val = mem']_vars

\* Simple case folding of the code points the inputs use: the ASCII capitals,
\* and U+017F (long s), which folds to "s".
FoldCase(text) ==
    [i \in 1..Len(text) |->
        IF text[i] \in 65..90 THEN text[i] + 32
        ELSE IF text[i] = 383 THEN 115 ELSE text[i]]

\* The method is GET or POST when case is ignored.
SupportedMethod(method) ==
    FoldCase(method) \in {<<103, 101, 116>>, <<112, 111, 115, 116>>}

\* C15: an invocation of fetch_with_no_ssl whose method is neither GET nor
\* POST, case ignored, has returned an error by its first step, and no request
\* of that invocation was ever handed to the network.
C15_UnsupportedMethodRejected ==
    \A f \in Fetchers :
        (fcall[f] > 0 /\ ~SupportedMethod(fmethod[f])) =>
            /\ fpc[f] = "done"
            /\ fret[f].kind = "err"
            /\ \A i \in 1..Len(wire) : wire[i].call # fcall[f]

\* C15 witness: a fetch with method "PUT" has returned "Unsupported method"
\* while another invocation's request went out.
C15_Witness ==
    \E f \in Fetchers :
        /\ fpc[f] = "done"
        /\ fmethod[f] = <<80, 85, 84>>
        /\ fret[f] = ErrText("Unsupported method")
        /\ Len(wire) = 1
        /\ wire[1].call # fcall[f]

\* The flag each platform identifier names.
NamedFlag(platform) ==
    CASE platform = "xau" -> "show_xau"
      [] platform = "ms" -> "show_ms"
      [] platform = "gh" -> "show_gh"
      [] platform = "zs" -> "show_zs"

\* C16: the value a successful toggle_platform(f) produced differs from the
\* value it read in the flag f names, which is negated, and in nothing else;
\* the value a successful set_bg_color produced has the new colour and the
\* four flags it read. When no other caller wrote meanwhile, that value is the
\* one in memory.
C16_MutatorFrame ==
    \A c \in Callers :
        (pc[c] = "done" /\ ret[c].kind = "settings") =>
            /\ op[c] = "toggle_platform" =>
                  /\ param[c] \in {"xau", "ms", "gh", "zs"}
                  /\ \A f \in FieldNames :
                        ret[c].val[f] = IF f = NamedFlag(param[c])
                                        THEN ~before[c].mem[f]
                                        ELSE before[c].mem[f]
            /\ op[c] = "set_bg_color" =>
                  /\ ret[c].val.bg_color = param[c]
                  /\ \A f \in BoolFields : ret[c].val[f] = before[c].mem[f]
            /\ (op[c] \in {"toggle_platform", "set_bg_color"} /\ clean[c]) =>
                  mem = ret[c].val

\* C16 witness: a set_bg_color that changed the colour has returned, over
\* settings in which a flag had been switched off.
C16_Witness ==
    \E c \in Callers :
        /\ pc[c] = "done"
        /\ op[c] = "set_bg_color"
        /\ ret[c].kind = "settings"
        /\ clean[c]
        /\ before[c].mem.bg_color # param[c]
        /\ \E f \in BoolFields : ~before[c].mem[f]
        /\ mem = ret[c].val

\* C17: a loop about to make a connection attempt has slept exactly one delay
\* per attempt it made before, and a loop whose last attempt is not yet
\* followed by its delay (it subscribes, receives, or is on its way to sleep
\* after a handshake failure, a send failure, a close frame, a read error or
\* the end of the stream) has slept one delay fewer; every delay is 5 seconds.
C17_SingleBackoff ==
    \A l \in Loops :
        LET made == hsFails[l] + hsOk[l]
        IN  /\ spc[l] \in {"none", "connect"} => Len(naps[l]) = made
            /\ spc[l] \in {"subscribe", "recv", "sleep_send", "sleep", "panicked"} =>
                  Len(naps[l]) = made - 1
            /\ \A i \in 1..Len(naps[l]) : naps[l][i] = 5

\* C17 witness: a loop is about to make its fourth attempt, after one failed
\* handshake and two connections that ended, and has slept three delays.
C17_Witness ==
    \E l \in Loops :
        /\ spc[l] = "connect"
        /\ hsFails[l] = 1
        /\ hsOk[l] = 2
        /\ naps[l] = <<5, 5, 5>>

\* The two commands of the run are mutators, one per caller, and both have
\* returned Ok.
BothMutatorsSucceeded ==
    /\ calls = 2
    /\ \A c \in Callers :
          /\ pc[c] = "done"
          /\ op[c] \in {"save_settings", "toggle_platform", "set_bg_color"}
          /\ ret[c].kind \in {"ok", "settings"}

\* C18: once two concurrently executed mutators have both succeeded and
\* finished, the saved settings record is the encoding of the settings in
\* memory.
C18_StoreMatchesMemory ==
    BothMutatorsSucceeded => disk = to_value(mem)

\* C19: once two concurrently executed mutators have both succeeded and
\* finished, the payload of the last "settings-updated" notification is the
\* settings value in memory.
C19_LastNotificationIsMemory ==
    BothMutatorsSucceeded =>
        /\ Len(emitted) = 2
        /\ emitted[Len(emitted)] = mem

\* C20: a loop is in its receive loop only after the one subscription message
\* of the connection was sent; a connection on which no subscription message
\* was sent, because the send is still to come or because it failed, has no
\* "xau-price-update" event; and a frame that is neither text nor close emits
\* nothing and leaves every loop where it is.
C20_SubscribeBeforeReceive ==
    /\ [](\A l \in Loops :
            /\ sends[l] \in {0, 1}
            /\ spc[l] \in {"recv", "panicked"} => sends[l] = 1
            /\ spc[l] \in {"subscribe", "sleep_send"} => sends[l] = 0
            /\ sends[l] = 0 => EventsOf(l) = <<>>)
    /\ [][(frames' # frames /\ rx' = rx) => (feed' = feed /\ spc' = spc)]_vars

\* C20 witness: on its first connection a loop has sent the subscription
\* message, received one text frame and one other frame, emitted one event
\* and is still receiving.
C20_Witness ==
    \E l \in Loops :
        /\ \A k \in Loops \ {l} : spc[k] = "none"
        /\ spc[l] = "recv"
        /\ hsOk[l] = 1
        /\ sends[l] = 1
        /\ frames = 2
        /\ rx[l] = <<ShortText>>
        /\ EventsOf(l) = <<ShortText>>

====
